---------------------------- MODULE Spec2Model ----------------------------
(***************************************************************************)
(* A model of src/index.py: the Appwrite function `main` that normalises   *)
(* base64 images with `encode_image`, posts them to the chat-completions   *)
(* endpoint and reshapes the model's textual answer into an `analyses`     *)
(* array.                                                                  *)
(*                                                                         *)
(* Text is a sequence of tokens.  One token stands for one lexical unit of *)
(* the text the code inspects:                                             *)
(*   "F"  the three-backtick fence marker      "j"  the word json          *)
(*   "w"  one whitespace character             "q"  a double quote         *)
(*   "a"  a run of ordinary letters            "c"  the word confidence    *)
(*   "9"  the numeral 0.9                      "5"  the numeral 0.5        *)
(*   "[" "]" "{" "}" "," ":"  themselves.                                  *)
(***************************************************************************)
EXTENDS Integers, Sequences, FiniteSets

VARIABLES
    pc,             \* position of the handler in main()
    body,           \* context.req.body
    apiKey,         \* whether OPENAI_API_KEY is set (line 9)
    images,         \* the local `images` of main()
    processed,      \* the prefix of processed_images built so far (line 94)
    reply,          \* the upstream response returned by requests.post
    responses,      \* what the handler returned through context.res.json
    escaped,        \* an exception left main() unhandled
    normalizeCalls, \* number of encode_image calls started
    postCalls,      \* number of requests.post calls started
    loadsCalls      \* number of json.loads calls on the model's answer

vars == <<pc, body, apiKey, images, processed, reply, responses, escaped,
          normalizeCalls, postCalls, loadsCalls>>

(***************************************************************************)
(* Bounds of the model.                                                    *)
(***************************************************************************)
MaxImages == 2      \* longest `images` list of a request
MaxItems == 2       \* longest JSON array in the model's answer
MaxSmallDim == 32   \* image sides 1..MaxSmallDim are all tried
MaxDelta == 32      \* image sides within MaxDelta of the canvas side
MaxFactor == 3      \* image sides up to MaxFactor times the canvas side

(***************************************************************************)
(* Program constants.                                                      *)
(***************************************************************************)
CanvasSize == 512
JpegQuality == 85
StatusOk == 200

Fence == <<"F">>
FenceJson == <<"F", "j">>
ConfidenceKey == <<"c">>
FixedConfidence == "9"

(***************************************************************************)
(* str.split / str.strip / `in` on token sequences.                        *)
(***************************************************************************)
Drop(s, n) == SubSeq(s, n + 1, Len(s))

\* index of the first occurrence of sep in s, 0 when there is none
Find(s, sep) ==
    LET hits == {i \in 1..(Len(s) - Len(sep) + 1) :
                    SubSeq(s, i, i + Len(sep) - 1) = sep}
    IN IF hits = {} THEN 0 ELSE CHOOSE i \in hits : \A k \in hits : i <= k

Contains(s, sep) == Find(s, sep) # 0

RECURSIVE Split(_, _)
Split(s, sep) ==
    LET i == Find(s, sep)
    IN IF i = 0 THEN <<s>>
       ELSE <<SubSeq(s, 1, i - 1)>> \o Split(Drop(s, i + Len(sep) - 1), sep)

RECURSIVE LStrip(_)
LStrip(s) == IF s # <<>> /\ Head(s) = "w" THEN LStrip(Tail(s)) ELSE s

RECURSIVE RStrip(_)
RStrip(s) ==
    IF s # <<>> /\ s[Len(s)] = "w" THEN RStrip(SubSeq(s, 1, Len(s) - 1)) ELSE s

Strip(s) == RStrip(LStrip(s))

(***************************************************************************)
(* JSON values.  Every value has the same shape so that any two compare:   *)
(*   t     "num", "str", "list" or "dict"                                  *)
(*   s     the numeral (num) or the characters (str)                       *)
(*   kids  the elements (list) or the member values (dict)                 *)
(*   keys  the member names (dict), keys[i] naming kids[i]                 *)
(***************************************************************************)
Num(n) == [t |-> "num", s |-> <<n>>, kids |-> <<>>, keys |-> <<>>]
Str(cs) == [t |-> "str", s |-> cs, kids |-> <<>>, keys |-> <<>>]
List(vs) == [t |-> "list", s |-> <<>>, kids |-> vs, keys |-> <<>>]
Dict(ks, vs) == [t |-> "dict", s |-> <<>>, kids |-> vs, keys |-> ks]

Numerals == {"9", "5"}

HasKey(d, k) == \E i \in 1..Len(d.keys) : d.keys[i] = k

KeyIndex(d, k) == CHOOSE i \in 1..Len(d.keys) : d.keys[i] = k

\* d[k] of a dict that has k
Get(d, k) == d.kids[KeyIndex(d, k)]

\* d[k] = v of a Python dict: an existing key keeps its place
SetKey(d, k, v) ==
    IF HasKey(d, k)
    THEN Dict(d.keys, [d.kids EXCEPT ![KeyIndex(d, k)] = v])
    ELSE Dict(Append(d.keys, k), Append(d.kids, v))

(***************************************************************************)
(* json.loads on a token sequence: a recursive-descent parser.  A parse    *)
(* result is [ok, val, next]; next is the index after the value.           *)
(***************************************************************************)
NoValue == Str(<<>>)
ParseFail == [ok |-> FALSE, val |-> NoValue, next |-> 0]
ParseOk(v, n) == [ok |-> TRUE, val |-> v, next |-> n]

RECURSIVE SkipWs(_, _)
SkipWs(s, i) == IF i <= Len(s) /\ s[i] = "w" THEN SkipWs(s, i + 1) ELSE i

\* index of the quote closing the string opened at i, 0 when unterminated
ClosingQuote(s, i) ==
    LET hits == {j \in (i + 1)..Len(s) : s[j] = "q"}
    IN IF hits = {} THEN 0 ELSE CHOOSE j \in hits : \A k \in hits : j <= k

ParseString(s, i) ==
    LET j == ClosingQuote(s, i)
    IN IF j = 0 THEN ParseFail ELSE ParseOk(Str(SubSeq(s, i + 1, j - 1)), j + 1)

RECURSIVE ParseValue(_, _)
RECURSIVE ParseElems(_, _, _)
RECURSIVE ParseMembers(_, _, _)

\* the elements of an array from index i on, after the elements acc
ParseElems(s, i, acc) ==
    LET r == ParseValue(s, i)
        k == SkipWs(s, r.next)
    IN IF ~r.ok \/ k > Len(s) THEN ParseFail
       ELSE IF s[k] = "," THEN ParseElems(s, SkipWs(s, k + 1), Append(acc, r.val))
       ELSE IF s[k] = "]" THEN ParseOk(List(Append(acc, r.val)), k + 1)
       ELSE ParseFail

\* the members of an object from index i on, added to the dict d
ParseMembers(s, i, d) ==
    IF i > Len(s) \/ s[i] # "q" THEN ParseFail
    ELSE LET key == ParseString(s, i)
             colon == SkipWs(s, key.next)
         IN IF ~key.ok \/ colon > Len(s) \/ s[colon] # ":" THEN ParseFail
            ELSE LET r == ParseValue(s, SkipWs(s, colon + 1))
                     k == SkipWs(s, r.next)
                 IN IF ~r.ok \/ k > Len(s) THEN ParseFail
                    ELSE IF s[k] = ","
                         THEN ParseMembers(s, SkipWs(s, k + 1),
                                           SetKey(d, key.val.s, r.val))
                    ELSE IF s[k] = "}"
                         THEN ParseOk(SetKey(d, key.val.s, r.val), k + 1)
                    ELSE ParseFail

ParseValue(s, i) ==
    IF i > Len(s) THEN ParseFail
    ELSE IF s[i] \in Numerals THEN ParseOk(Num(s[i]), i + 1)
    ELSE IF s[i] = "q" THEN ParseString(s, i)
    ELSE IF s[i] = "["
         THEN LET k == SkipWs(s, i + 1)
              IN IF k <= Len(s) /\ s[k] = "]" THEN ParseOk(List(<<>>), k + 1)
                 ELSE ParseElems(s, k, <<>>)
    ELSE IF s[i] = "{"
         THEN LET k == SkipWs(s, i + 1)
              IN IF k <= Len(s) /\ s[k] = "}" THEN ParseOk(Dict(<<>>, <<>>), k + 1)
                 ELSE ParseMembers(s, k, Dict(<<>>, <<>>))
    ELSE ParseFail

\* json.loads(s): one value, surrounded by optional whitespace, and nothing else
Loads(s) ==
    LET r == ParseValue(s, SkipWs(s, 1))
    IN IF r.ok /\ SkipWs(s, r.next) > Len(s) THEN r ELSE ParseFail


(***************************************************************************)
(* Exceptions and operation outcomes.                                      *)
(***************************************************************************)
Exc(type, msg) == [type |-> type, msg |-> msg]
NoExc == Exc("none", "")
Returned(v) == [ok |-> TRUE, exc |-> NoExc, val |-> v]
Raised(e, v) == [ok |-> FALSE, exc |-> e, val |-> v]

(***************************************************************************)
(* encode_image (lines 12-36).  An image is what base64.b64decode and      *)
(* Image.open make of the submitted string: undecodable, or a picture of   *)
(* a colour mode and a size.  The result records the geometry of the       *)
(* canvas that is saved as JPEG.                                           *)
(***************************************************************************)
BadImage == [decodable |-> FALSE, mode |-> "none", w |-> 0, h |-> 0]
GoodImage(mode, w, h) == [decodable |-> TRUE, mode |-> mode, w |-> w, h |-> h]
NoCanvas ==
    [size |-> <<0, 0>>, mode |-> "none", content |-> <<0, 0>>,
     offset |-> <<0, 0>>, quality |-> 0]

Abs(n) == IF n < 0 THEN -n ELSE n
Max(a, b) == IF a >= b THEN a ELSE b

\* Pillow's round_aspect for the width: floor or ceiling of 512 * w / h,
\* whichever keeps n / 512 nearer to w / h (the floor on a tie), at least 1
RoundWidth(w, h) ==
    LET f == (CanvasSize * w) \div h
        c == IF (CanvasSize * w) % h = 0 THEN f ELSE f + 1
    IN Max(IF Abs(CanvasSize * w - f * h) <= Abs(CanvasSize * w - c * h)
           THEN f ELSE c, 1)

\* Pillow's round_aspect for the height: floor or ceiling of 512 / (w / h),
\* whichever keeps 512 / n nearer to w / h (key 0 for n = 0), at least 1
RoundHeight(w, h) ==
    LET f == (CanvasSize * h) \div w
        c == IF (CanvasSize * h) % w = 0 THEN f ELSE f + 1
    IN Max(IF f = 0 \/ Abs(w * f - CanvasSize * h) * c
                        <= Abs(w * c - CanvasSize * h) * f
           THEN f ELSE c, 1)

\* a faulty variant of Thumbnail: always fits the longer side to the canvas
ThumbnailResizeToFit(w, h) ==
    IF h >= w THEN <<RoundWidth(w, h), CanvasSize>>
    ELSE <<CanvasSize, RoundHeight(w, h)>>

\* img.thumbnail((512, 512), LANCZOS): the size of img afterwards
Thumbnail(w, h) ==
    IF CanvasSize >= w /\ CanvasSize >= h THEN <<w, h>>
    ELSE IF h >= w THEN <<RoundWidth(w, h), CanvasSize>>
    ELSE <<CanvasSize, RoundHeight(w, h)>>

PasteOffset(size) ==
    <<(CanvasSize - size[1]) \div 2, (CanvasSize - size[2]) \div 2>>

\* a faulty variant of encode_image: an undecodable image yields a blank canvas
encode_image_swallow(img) ==
    Returned([size |-> <<CanvasSize, CanvasSize>>, mode |-> "RGB",
              content |-> IF img.decodable THEN Thumbnail(img.w, img.h)
                          ELSE <<1, 1>>,
              offset |-> IF img.decodable
                         THEN PasteOffset(Thumbnail(img.w, img.h))
                         ELSE <<0, 0>>,
              quality |-> JpegQuality])

encode_image(img) ==
    IF ~img.decodable
    THEN Raised(Exc("ValueError", "Error processing image"), NoCanvas)
    ELSE LET mode == IF img.mode # "RGB" THEN "RGB" ELSE img.mode
             size == Thumbnail(img.w, img.h)
         IN Returned([size |-> <<CanvasSize, CanvasSize>>, mode |-> mode,
                      content |-> size, offset |-> PasteOffset(size),
                      quality |-> JpegQuality])

(***************************************************************************)
(* The responses of main().                                                *)
(***************************************************************************)
NoText == [shape |-> "none", content |-> <<>>]
Message(text, status, raw, cause) ==
    [text |-> text, status |-> status, body |-> raw, cause |-> cause]

InvalidJsonMessage ==
    Message("Invalid JSON format in request body", 0, NoText, NoExc)
NoImagesMessage == Message("No images provided", 0, NoText, NoExc)
MissingKeyMessage ==
    Message("OPENAI_API_KEY is missing from environment variables", 0,
            NoText, NoExc)
UpstreamMessage(status, raw) ==
    Message("API request failed with status code", status, raw, NoExc)
UnexpectedMessage(e) == Message("Unexpected error", 0, NoText, e)

Success(list) == [success |-> TRUE, analyses |-> list]
Failure(msg) == [success |-> FALSE, message |-> msg]

\* a faulty variant of Handler: `except ValueError` in place of `except Exception`
HandlerValueErrorOnly(e) ==
    IF e.type \in {"ValueError", "JSONDecodeError"}
    THEN [responses |-> <<Failure(UnexpectedMessage(e))>>, escaped |-> FALSE]
    ELSE [responses |-> <<>>, escaped |-> TRUE]

\* the except clause of main (lines 183-190)
Handler(e) ==
    [responses |-> <<Failure(UnexpectedMessage(e))>>, escaped |-> FALSE]

(***************************************************************************)
(* The answer of the model: lines 159-174.                                 *)
(***************************************************************************)
\* response.json()['choices'][0]['message']['content']
ExtractContent(text) ==
    CASE text.shape = "content" -> Returned(text.content)
      [] text.shape = "nullcontent" -> Returned(<<>>)
      [] text.shape = "nojson" -> Raised(Exc("JSONDecodeError", "body"), <<>>)
      [] OTHER -> Raised(Exc("KeyError", "choices"), <<>>)

\* s.split(sep)[n], counting n from 0
Part(s, sep, n) ==
    LET parts == Split(s, sep)
    IN IF n + 1 <= Len(parts) THEN Returned(parts[n + 1])
       ELSE Raised(Exc("IndexError", "list index out of range"), <<>>)

\* lines 163-166
StripFence(content) ==
    IF Contains(content, FenceJson)
    THEN LET inner == Part(content, FenceJson, 1)
         IN IF inner.ok THEN Returned(Strip(Part(inner.val, Fence, 0).val))
            ELSE inner
    ELSE IF Contains(content, Fence)
    THEN LET inner == Part(content, Fence, 1)
         IN IF inner.ok THEN Returned(Strip(Part(inner.val, Fence, 0).val))
            ELSE inner
    ELSE Returned(content)

\* a faulty variant of AsList: the parsed value is taken as the list of its parts
AsListNoWrap(v) == v.kids

\* lines 169-170
AsList(v) == IF v.t # "list" THEN <<v>> ELSE v.kids

\* a faulty variant of SetConfidence: dict.setdefault, a supplied confidence stays
SetConfidenceDefault(item) ==
    IF HasKey(item, ConfidenceKey) THEN item
    ELSE SetKey(item, ConfidenceKey, Num(FixedConfidence))

\* line 174 on a dict
SetConfidence(item) == SetKey(item, ConfidenceKey, Num(FixedConfidence))

\* lines 173-174: item assignment works on a dict only
RECURSIVE StampConfidence(_)
StampConfidence(list) ==
    IF list = <<>> THEN Returned(<<>>)
    ELSE IF Head(list).t # "dict"
         THEN Raised(Exc("TypeError", "item assignment"), <<>>)
    ELSE LET rest == StampConfidence(Tail(list))
         IN IF rest.ok THEN Returned(<<SetConfidence(Head(list))>> \o rest.val)
            ELSE rest

\* lines 159-174: the analyses, or the exception raised on the way; loads
\* tells whether json.loads was called on the model's answer
Analyze(text) ==
    LET content == ExtractContent(text)
        stripped == StripFence(content.val)
        parsed == Loads(stripped.val)
        stamped == StampConfidence(AsList(parsed.val))
    IN IF ~content.ok THEN [res |-> content, loads |-> 0]
       ELSE IF text.shape = "nullcontent"
            THEN [res |-> Raised(Exc("TypeError", "NoneType not iterable"), <<>>),
                  loads |-> 0]
       ELSE IF ~stripped.ok THEN [res |-> stripped, loads |-> 0]
       ELSE IF ~parsed.ok
            THEN [res |-> Raised(Exc("JSONDecodeError", "answer"), <<>>),
                  loads |-> 1]
       ELSE [res |-> stamped, loads |-> 1]

(***************************************************************************)
(* The inputs of an invocation.                                            *)
(***************************************************************************)
SeqsUpTo(S, n) == UNION {[1..k -> S] : k \in 0..n}

RECURSIVE Join(_, _)
Join(texts, sep) ==
    IF texts = <<>> THEN <<>>
    ELSE IF Len(texts) = 1 THEN texts[1]
    ELSE texts[1] \o sep \o Join(Tail(texts), sep)

\* the `images` value of a request body: a list of strings or one string
ImageList(items) == [t |-> "list", items |-> items]
ImageString(items) == [t |-> "str", items |-> items]

RequestImages == {BadImage, GoodImage("RGBA", 1024, 768)}

ObjectBody(has, value) == [kind |-> "object", hasImages |-> has, images |-> value]

\* context.req.body: not JSON; JSON but no object; an object without images,
\* with a list of images, with the empty string, with one image string
Bodies ==
    {[kind |-> k, hasImages |-> FALSE, images |-> ImageList(<<>>)] :
        k \in {"invalid", "nonobject"}}
    \cup {ObjectBody(FALSE, ImageList(<<>>))}
    \cup {ObjectBody(TRUE, ImageList(items)) :
            items \in SeqsUpTo(RequestImages, MaxImages)}
    \cup {ObjectBody(TRUE, ImageString(<<>>))}
    \cup {ObjectBody(TRUE, ImageString(<<img>>)) : img \in RequestImages}

\* texts the model may answer with
ObjPlain == <<"{", "q", "a", "q", ":", "q", "a", "q", "}">>
ObjConf ==
    <<"{", "q", "a", "q", ":", "q", "a", "q", ",", "w",
      "q", "c", "q", ":", "5", "}">>
ObjFenceInside ==
    <<"{", "q", "a", "q", ":", "q", "F", "[", "]", "F", "q", "}">>
NumText == <<"5">>
Prose == <<"a", "w", "a">>

ItemTexts == {ObjPlain, ObjConf, ObjFenceInside, NumText}

ArrayText(items) == <<"[">> \o Join(items, <<",", "w">>) \o <<"]">>

\* the well-formed JSON array texts of the model
ArrayTexts == {ArrayText(items) : items \in SeqsUpTo(ItemTexts, MaxItems)}

AnswerTexts == ArrayTexts \cup ItemTexts \cup {Prose, <<>>}

InJsonFence(text) == <<"F", "j", "w">> \o text \o <<"w", "F">>
InPlainFence(text) == <<"F", "w">> \o text \o <<"w", "F">>

Contents ==
    AnswerTexts
    \cup {InJsonFence(text) : text \in AnswerTexts}
    \cup {InPlainFence(text) : text \in AnswerTexts}
    \cup {Prose \o <<"w">> \o InJsonFence(ObjPlain) \o <<"w">> \o Prose}

\* response.text: a completion with a content, one with a null content, a
\* body that is no JSON, a JSON body without choices
Texts ==
    {[shape |-> "content", content |-> c] : c \in Contents}
    \cup {[shape |-> sh, content |-> <<>>] :
            sh \in {"nullcontent", "nojson", "nochoices"}}

StatusCodes == {StatusOk, 204, 500}

Replies == [status_code : StatusCodes, text : Texts]

NoReply == [status_code |-> 0, text |-> NoText]

(***************************************************************************)
(* The handler main (lines 38-190).                                        *)
(***************************************************************************)
Init ==
    /\ pc = "start"
    /\ body \in Bodies
    /\ apiKey \in BOOLEAN
    /\ images = ImageList(<<>>)
    /\ processed = <<>>
    /\ reply = NoReply
    /\ responses = <<>>
    /\ escaped = FALSE
    /\ normalizeCalls = 0
    /\ postCalls = 0
    /\ loadsCalls = 0

\* return context.res.json(resp)
Return(resp) ==
    /\ pc' = "done"
    /\ responses' = Append(responses, resp)
    /\ escaped' = escaped

\* an exception raised inside the try block of main
Raise(e) ==
    /\ pc' = "done"
    /\ responses' = responses \o Handler(e).responses
    /\ escaped' = Handler(e).escaped

\* lines 60-72
ParseBody ==
    /\ pc = "start"
    /\ CASE body.kind = "invalid" -> Return(Failure(InvalidJsonMessage)) /\ images' = images
         [] body.kind = "nonobject" ->
                Raise(Exc("AttributeError", "get")) /\ images' = images
         [] OTHER ->
                /\ images' = IF body.hasImages THEN body.images ELSE ImageList(<<>>)
                /\ pc' = "validate"
                /\ UNCHANGED <<responses, escaped>>
    /\ UNCHANGED <<body, apiKey, processed, reply, normalizeCalls, postCalls,
                   loadsCalls>>

\* a faulty variant of IsEmpty: only a missing key counts as no images
IsEmptyMissingOnly(value) == ~body.hasImages

\* `not images` (line 74)
IsEmpty(value) == value.items = <<>>

\* lines 74-83
CheckImages ==
    /\ pc = "validate"
    /\ IF IsEmpty(images)
       THEN Return(Failure(NoImagesMessage)) /\ images' = images
       ELSE /\ images' = IF images.t # "list" THEN ImageList(images.items)
                         ELSE images
            /\ pc' = "check_key"
            /\ UNCHANGED <<responses, escaped>>
    /\ UNCHANGED <<body, apiKey, processed, reply, normalizeCalls, postCalls,
                   loadsCalls>>

\* a faulty variant of KeyMissing: the check never fires
KeyMissingNever(key) == FALSE

\* `not OPENAI_API_KEY` (line 86)
KeyMissing(key) == ~key

\* lines 86-91
CheckKey ==
    /\ pc = "check_key"
    /\ IF KeyMissing(apiKey)
       THEN Return(Failure(MissingKeyMessage))
       ELSE pc' = "encode" /\ UNCHANGED <<responses, escaped>>
    /\ UNCHANGED <<body, apiKey, images, processed, reply, normalizeCalls,
                   postCalls, loadsCalls>>

\* line 94: one step of the list comprehension, an encode_image call on the
\* next image or, after the last one, the binding of processed_images
EncodeNext ==
    /\ pc = "encode"
    /\ IF Len(processed) < Len(images.items)
       THEN LET r == encode_image(images.items[Len(processed) + 1])
            IN /\ normalizeCalls' = normalizeCalls + 1
               /\ IF r.ok
                  THEN /\ processed' = Append(processed, r.val)
                       /\ UNCHANGED <<pc, responses, escaped>>
                  ELSE Raise(r.exc) /\ processed' = processed
       ELSE /\ pc' = "post"
            /\ UNCHANGED <<processed, normalizeCalls, responses, escaped>>
    /\ UNCHANGED <<body, apiKey, images, reply, postCalls, loadsCalls>>

\* lines 125-146: the one requests.post call, which returns a response or
\* raises (no connection)
Post ==
    /\ pc = "post"
    /\ postCalls' = postCalls + 1
    /\ \/ \E r \in Replies :
            /\ reply' = r
            /\ pc' = "status"
            /\ UNCHANGED <<responses, escaped>>
       \/ Raise(Exc("ConnectionError", "post")) /\ reply' = reply
    /\ UNCHANGED <<body, apiKey, images, processed, normalizeCalls, loadsCalls>>

\* a faulty variant of StatusFailed: only 4xx and 5xx fail
StatusFailedFrom400(status) == status >= 400

\* `response.status_code != 200` (line 148)
StatusFailed(status) == status # StatusOk

\* lines 148-156
CheckStatus ==
    /\ pc = "status"
    /\ IF StatusFailed(reply.status_code)
       THEN Return(Failure(UpstreamMessage(reply.status_code, reply.text)))
       ELSE pc' = "answer" /\ UNCHANGED <<responses, escaped>>
    /\ UNCHANGED <<body, apiKey, images, processed, reply, normalizeCalls,
                   postCalls, loadsCalls>>

\* lines 159-181
ReturnAnalyses ==
    /\ pc = "answer"
    /\ LET a == Analyze(reply.text)
       IN /\ loadsCalls' = loadsCalls + a.loads
          /\ IF a.res.ok THEN Return(Success(a.res.val)) ELSE Raise(a.res.exc)
    /\ UNCHANGED <<body, apiKey, images, processed, reply, normalizeCalls,
                   postCalls>>

Next ==
    \/ ParseBody
    \/ CheckImages
    \/ CheckKey
    \/ EncodeNext
    \/ Post
    \/ CheckStatus
    \/ ReturnAnalyses

Spec == Init /\ [][Next]_vars

(***************************************************************************)
(* encode_image alone, on one image of any of the sizes DimValues.         *)
(***************************************************************************)
DimValues ==
    (1..MaxSmallDim)
    \cup {CanvasSize + d : d \in (-MaxDelta)..MaxDelta}
    \cup {CanvasSize * k + d : k \in 2..MaxFactor, d \in {-1, 0, 1}}

GeomImages ==
    {BadImage}
    \cup {GoodImage(m, w, h) : m \in {"RGB", "RGBA"}, w \in DimValues, h \in DimValues}

InitGeom ==
    /\ pc = "encode"
    /\ \E img \in GeomImages :
          /\ body = ObjectBody(TRUE, ImageList(<<img>>))
          /\ images = ImageList(<<img>>)
    /\ apiKey = TRUE
    /\ processed = <<>>
    /\ reply = NoReply
    /\ responses = <<>>
    /\ escaped = FALSE
    /\ normalizeCalls = 0
    /\ postCalls = 0
    /\ loadsCalls = 0

NextGeom == EncodeNext

SpecGeom == InitGeom /\ [][NextGeom]_vars

(***************************************************************************)
(* Properties.                                                             *)
(***************************************************************************)
Done == pc = "done"
Answered == Done /\ Len(responses) = 1
CompletionReply == reply.status_code = 200 /\ reply.text.shape = "content"
SubmittedSome ==
    body.kind = "object" /\ body.hasImages /\ body.images.items # <<>>
SubmittedNone ==
    body.kind = "object" /\ (~body.hasImages \/ body.images.items = <<>>)

WellFormedResponse(r) ==
    /\ "success" \in DOMAIN r
    /\ r.success \in BOOLEAN
    /\ IF r.success
       THEN /\ DOMAIN r = {"success", "analyses"}
            /\ DOMAIN r.analyses = 1..Len(r.analyses)
       ELSE /\ DOMAIN r = {"success", "message"}
            /\ r.message.text \in
                 {"Invalid JSON format in request body", "No images provided",
                  "OPENAI_API_KEY is missing from environment variables",
                  "API request failed with status code", "Unexpected error"}

\* the steps of main before the model's answer is read
StepBeforeAnswer ==
    ParseBody \/ CheckImages \/ CheckKey \/ EncodeNext \/ Post \/ CheckStatus

\* C1: every invocation ends with exactly one response, a JSON object with a
\* boolean success flag and either analyses (success) or a message (failure);
\* no exception leaves the handler, and the handler does not stop without a
\* response: before the answer is read a step is enabled, and the last step
\* (ReturnAnalyses, which returns or raises into the except clause) is reached
\* only with a reply of status 200.
C1_OneStructuredResponse ==
    /\ ~escaped
    /\ Len(responses) = (IF Done THEN 1 ELSE 0)
    /\ \A i \in 1..Len(responses) : WellFormedResponse(responses[i])
    /\ ~Done => IF pc = "answer" THEN reply.status_code = 200
                ELSE ENABLED StepBeforeAnswer

C1_Witness ==
    /\ Answered
    /\ ~responses[1].success
    /\ responses[1].message.cause.type = "TypeError"
    /\ postCalls = 1

\* C2: a success response carries exactly one analysis per submitted image.
C2_OneItemPerImage ==
    (Answered /\ responses[1].success)
        => Len(responses[1].analyses) = Len(images.items)

\* C3: a request whose images value is missing or empty is answered with
\* "No images provided", and neither encode_image nor requests.post is called.
C3_EmptyImagesNoWork ==
    SubmittedNone =>
        /\ normalizeCalls = 0
        /\ postCalls = 0
        /\ Done => responses = <<[success |-> FALSE, message |-> NoImagesMessage]>>

C3_Witness ==
    /\ Done
    /\ apiKey
    /\ body.hasImages
    /\ body.images = ImageString(<<>>)
    /\ responses[1].message.text = "No images provided"

\* C4: if any image of the request fails encode_image, the request fails as a
\* whole: a failure response without analyses, and requests.post is not called.
C4_BadImageFailsRequest ==
    (SubmittedSome /\ \E i \in 1..Len(body.images.items) :
                          ~body.images.items[i].decodable)
        => /\ postCalls = 0
           /\ Done => /\ Len(responses) = 1
                      /\ ~responses[1].success
                      /\ DOMAIN responses[1] = {"success", "message"}

C4_Witness ==
    /\ Done
    /\ Len(body.images.items) = 2
    /\ body.images.items[1].decodable
    /\ ~body.images.items[2].decodable
    /\ normalizeCalls = 2
    /\ Len(processed) = 1
    /\ responses[1].message.cause.type = "ValueError"

\* C5: requests.post is called at most once; a reply whose status is not 200 is
\* answered with a failure carrying that status and the raw body, and the body
\* is never parsed as an analysis.
C5_UpstreamFailureSurfaced ==
    /\ postCalls <= 1
    /\ (reply # NoReply /\ reply.status_code # 200) =>
          /\ loadsCalls = 0
          /\ Done => /\ Len(responses) = 1
                     /\ ~responses[1].success
                     /\ responses[1].message.status = reply.status_code
                     /\ responses[1].message.body = reply.text

C5_Witness ==
    /\ Done
    /\ reply.status_code = 500
    /\ reply.text.shape = "content"
    /\ reply.text.content = ArrayText(<<ObjPlain>>)
    /\ responses[1].message.status = 500
    /\ postCalls = 1

\* C6: every item of the analyses of a success response has confidence 0.9.
C6_ConfidenceFixed ==
    \A i \in 1..Len(responses) :
        responses[i].success =>
            \A n \in 1..Len(responses[i].analyses) :
                LET item == responses[i].analyses[n]
                IN /\ item.t = "dict"
                   /\ HasKey(item, <<"c">>)
                   /\ Get(item, <<"c">>) = Num("9")

C6_Witness ==
    /\ Answered
    /\ responses[1].success
    /\ reply.text.content = ArrayText(<<ObjConf, ObjPlain>>)
    /\ Len(responses[1].analyses) = 2

\* the response of the handler to a completion whose content is `text`
ResponseTo(text) ==
    LET a == Analyze([shape |-> "content", content |-> text])
    IN IF a.res.ok THEN Success(a.res.val) ELSE Handler(a.res.exc).responses[1]

\* C7: for every well-formed JSON array text A, the response to A inside a
\* json-tagged fence equals the response to A without a fence.
C7_FenceStrippingNoOp ==
    \A A \in ArrayTexts :
        (Answered /\ CompletionReply /\ reply.text.content = InJsonFence(A))
            => responses[1] = ResponseTo(A)

\* C8 as stated: for any request, without an API key the handler answers with
\* the missing-key message and calls neither encode_image nor requests.post.
C8_AnyRequestMissingKey ==
    ~apiKey =>
        /\ normalizeCalls = 0
        /\ postCalls = 0
        /\ Done => responses = <<[success |-> FALSE, message |-> MissingKeyMessage]>>

\* C8 amended: without an API key neither encode_image nor requests.post is
\* called, and a request whose body is a JSON object with a non-empty images
\* value is answered with the missing-key message.
C8_MissingKeyReported ==
    ~apiKey =>
        /\ normalizeCalls = 0
        /\ postCalls = 0
        /\ (Done /\ SubmittedSome) =>
              /\ Len(responses) = 1
              /\ ~responses[1].success
              /\ responses[1].message.text =
                    "OPENAI_API_KEY is missing from environment variables"

C8_Witness ==
    /\ Done
    /\ ~apiKey
    /\ Len(body.images.items) = 2
    /\ ~body.images.items[1].decodable
    /\ responses[1].message.text =
          "OPENAI_API_KEY is missing from environment variables"

\* the answer of the model after fence-stripping, parsed
ParsedAnswer == Loads(StripFence(reply.text.content).val)

\* out is the object obj with confidence set to 0.9
StampedCopy(out, obj) ==
    /\ out.t = "dict"
    /\ {out.keys[i] : i \in 1..Len(out.keys)}
          = {obj.keys[i] : i \in 1..Len(obj.keys)} \cup {<<"c">>}
    /\ Get(out, <<"c">>) = Num("9")
    /\ \A i \in 1..Len(obj.keys) :
          obj.keys[i] # <<"c">> => Get(out, obj.keys[i]) = Get(obj, obj.keys[i])

AllObjects(list) == \A i \in 1..Len(list) : list[i].t = "dict"

\* the analyses of the response are the objects of list, stamped, in order
StampedList(list) ==
    /\ Len(responses) = 1
    /\ responses[1].success
    /\ Len(responses[1].analyses) = Len(list)
    /\ \A i \in 1..Len(list) : StampedCopy(responses[1].analyses[i], list[i])

\* C9 as stated: an answer that parses to an object is returned as a one-element
\* array holding it with confidence 0.9; an answer that parses to an array is
\* returned with its elements in the same order and count.
C9_AnyArrayReturned ==
    (Done /\ CompletionReply /\ ParsedAnswer.ok) =>
        /\ ParsedAnswer.val.t = "dict" => StampedList(<<ParsedAnswer.val>>)
        /\ ParsedAnswer.val.t = "list" =>
              /\ Len(responses) = 1
              /\ responses[1].success
              /\ Len(responses[1].analyses) = Len(ParsedAnswer.val.kids)

\* C9 amended: an answer that parses to an object is returned as a one-element
\* array holding it with confidence 0.9; an answer that parses to an array of
\* objects is returned with its elements, each with confidence 0.9, in the same
\* order and count; an array with an element that is no object is answered with
\* a failure.
C9_ObjectsReturned ==
    (Done /\ CompletionReply /\ ParsedAnswer.ok) =>
        /\ ParsedAnswer.val.t = "dict" => StampedList(<<ParsedAnswer.val>>)
        /\ (ParsedAnswer.val.t = "list" /\ AllObjects(ParsedAnswer.val.kids))
              => StampedList(ParsedAnswer.val.kids)
        /\ (ParsedAnswer.val.t = "list" /\ ~AllObjects(ParsedAnswer.val.kids))
              => /\ Len(responses) = 1
                 /\ ~responses[1].success

C9_Witness ==
    /\ Answered
    /\ CompletionReply
    /\ reply.text.content = InJsonFence(ObjPlain)
    /\ responses[1].success
    /\ Len(responses[1].analyses) = 1

Within(lo, n, hi) == lo <= n /\ n <= hi
Min(a, b) == IF a <= b THEN a ELSE b

\* the content of side `scaled` pasted at `offset` lies inside the canvas, at
\* floor((512 - scaled) / 2), with margins that differ by at most 1
Centred(offset, scaled) ==
    /\ offset >= 0
    /\ offset + scaled <= 512
    /\ Within(2 * offset, 512 - scaled, 2 * offset + 1)
    /\ Within(0, (512 - scaled - offset) - offset, 1)

\* C10: for a decoded image of width w >= 1 and height h >= 1 the canvas is
\* 512x512, the scaled content is at least 1 and at most min(side, 512) on each
\* axis, is the image's own size when both sides are at most 512, and is pasted
\* centred (offset floor((512 - side) / 2) on each axis).
C10_NormalizerGeometry ==
    \A i \in 1..Len(processed) :
        LET img == images.items[i]
            out == processed[i]
        IN (img.w >= 1 /\ img.h >= 1) =>
              /\ out.size = <<512, 512>>
              /\ Within(1, out.content[1], Min(img.w, 512))
              /\ Within(1, out.content[2], Min(img.h, 512))
              /\ (img.w <= 512 /\ img.h <= 512) => out.content = <<img.w, img.h>>
              /\ Centred(out.offset[1], out.content[1])
              /\ Centred(out.offset[2], out.content[2])

C10_Witness ==
    /\ Len(processed) = 1
    /\ images.items[1].w = 1025
    /\ images.items[1].h = 3
    /\ processed[1].content = <<512, 2>>
    /\ processed[1].offset = <<0, 255>>

=============================================================================
